---------------------------- MODULE Spec2Model ----------------------------
(***************************************************************************)
(* Earthquake ripple visualizer (script.js): the render loop, the ripple   *)
(* store, the auto-ripple throttle, the map offset and its wraparound      *)
(* projection, the one-shot feed fetch and the pointer handlers.           *)
(*                                                                         *)
(* Numbers.  JavaScript numbers are modelled by exact rationals on fixed   *)
(* grids, so that no arithmetic step of the script rounds:                 *)
(*   - x coordinates and offsets are in 1/360 pixel (XU), y coordinates in *)
(*     1/180 pixel (YU): the feed projection divides by 360 and by 180;    *)
(*   - magnitudes and speed multipliers are in tenths, depths in km;       *)
(*   - radius, maxRadius and speed are in 1/52500 pixel (RadiusUnit);      *)
(*   - lineWidth is in 1/20 pixel;                                         *)
(*   - a ripple's opacity is a fraction num/den over its own maxRadius     *)
(*     (den = maxRadius): 1 is maxRadius/maxRadius.                        *)
(* The controls (sliders, checkboxes) are DOM state the script only reads; *)
(* each handler that reads one takes the value read as an input.           *)
(***************************************************************************)
EXTENDS Integers, Sequences, FiniteSets, TLC

\* ------------------------------------------------------------- constants

\* the feed projection's divisors: x = (lon + 180) / 360 * width
XU == 360
\* y = (90 - lat) / 180 * height
YU == 180
\* radius grid: 1/(75 * 700) pixel
RadiusUnit == 75 * 700

baseMaxRadius == 80
extraRadius == 220
AUTO_RIPPLE_INTERVAL == 2000

\* canvas.width and canvas.height in pixels (set by the page)
CanvasWidth == 6
CanvasHeight == 2
W == CanvasWidth * XU
H == CanvasHeight * YU

\* ---------------------------------------------------------------- bounds

\* the ripple store is unbounded in the script; spawns are cut off here
MaxRipples == 3
\* frames stop at this timestamp (ms)
MaxTime == 6000
\* drags stop moving the offset past this many pixels either way
MaxOffsetPx == 7
\* the projector is tried on every canvas width from 2 to this, and on 800
MaxProbeWidth == 5
\* createRippleFromWorld is tried this many times in a row
MaxProbeSpawns == 2

\* ------------------------------------------------------------ arithmetic

Max(a, b) == IF a >= b THEN a ELSE b
Min(a, b) == IF a <= b THEN a ELSE b
Abs(a) == IF a >= 0 THEN a ELSE -a

\* JavaScript's % : the remainder takes the sign of the dividend
JsRem(a, b) == IF a >= 0 THEN a % b ELSE -((-a) % b)

\* ------------------------------------------------------------- projector

\* normalizeOffset(): ((mapOffsetX % w) + w) % w
NormalizeTruncated(offset, w) == JsRem(offset, w)

NormalizeOffset(offset, w) == JsRem(JsRem(offset, w) + w, w)

ToScreenInclusive(baseX, offset, w) ==
    LET screenX == baseX + offset
    IN IF screenX >= w THEN screenX - w ELSE screenX

\* let screenX = baseX + offset; if (screenX > canvas.width) screenX -= canvas.width
ToScreen(baseX, offset, w) ==
    LET screenX == baseX + offset
    IN IF screenX > w THEN screenX - w ELSE screenX

ToBaseInclusive(screenX, offset, w) ==
    LET baseX == screenX - offset
    IN IF baseX <= 0 THEN baseX + w ELSE baseX

\* let baseX = screenX - offset; if (baseX < 0) baseX += canvas.width
ToBase(screenX, offset, w) ==
    LET baseX == screenX - offset
    IN IF baseX < 0 THEN baseX + w ELSE baseX

\* x1 = offset - w, x2 = offset: where drawFrame puts the left edge of the
\* two copies of the map
MapCopies(offset, w) == {offset - w, offset}

\* ((lon + 180) / 360) * canvas.width, in 1/360 pixel
ProjectX(lon, widthPx) == (lon + 180) * widthPx
\* ((90 - lat) / 180) * canvas.height, in 1/180 pixel
ProjectY(lat, heightPx) == (90 - lat) * heightPx

\* ---------------------------------------------------------- ripple maths

ClampMagBelow(magnitude) == Max(30, magnitude)

\* Math.max(3, Math.min(9, magnitude)), in tenths
ClampMag(magnitude) == Max(30, Min(90, magnitude))
\* Math.max(0, Math.min(700, depth))
ClampDepth(depth) == Max(0, Min(700, depth))

\* baseMaxRadius + extraRadius * magFactor * (0.4 + 0.6 * depthFactor) with
\* magFactor = (mag - 3) / 6 and depthFactor = 1 - depthKm / 700, that is
\* 80 + 220 * (mag10 - 30) * (7000 - 6 * depthKm) / 420000 pixel
MaxRadiusOf(magnitude, depth) ==
    LET mag == ClampMag(magnitude)
        depthKm == ClampDepth(depth)
    IN baseMaxRadius * RadiusUnit
         + (extraRadius * (mag - 30) * (7000 - 6 * depthKm)) \div 8

RippleSpeedFlat(magnitude, speedMultiplier) == (11 * speedMultiplier * 360 * 7) \div 8

\* baseSpeed * speedMultiplier * (0.6 + 0.8 * magFactor) with baseSpeed = 1.1,
\* that is 11 * speed10 * (360 + 8 * (mag10 - 30)) / 60000 pixel per frame
RippleSpeedOf(magnitude, speedMultiplier) ==
    LET mag == ClampMag(magnitude)
    IN (11 * speedMultiplier * (360 + 8 * (mag - 30)) * 7) \div 8

\* 2 + 3 * magFactor, in 1/20 pixel
LineWidthOf(magnitude) == 40 + (ClampMag(magnitude) - 30)

ColorOf(fromAuto) == IF fromAuto THEN "#4ade80" ELSE "#22d3ee"

\* the object createRippleFromWorld pushes; age counts the frames the ripple
\* has been through (not a field of the script's object)
NewRipple(baseX, baseY, magnitude, depth, speedMultiplier, fromAuto) ==
    [baseX |-> baseX,
     baseY |-> baseY,
     radius |-> 0,
     maxRadius |-> MaxRadiusOf(magnitude, depth),
     speed |-> RippleSpeedOf(magnitude, speedMultiplier),
     lineWidth |-> LineWidthOf(magnitude),
     baseColor |-> ColorOf(fromAuto),
     opacity |-> [num |-> MaxRadiusOf(magnitude, depth),
                  den |-> MaxRadiusOf(magnitude, depth)],
     fromAuto |-> fromAuto,
     age |-> 0]

\* 1 - radius / maxRadius
OpacityOf(radius, maxRadius) == [num |-> maxRadius - radius, den |-> maxRadius]

\* mutant: ripples.splice(i + 1, 1)
SpliceNext(rs, i) == SubSeq(rs, 1, i + 1) \o SubSeq(rs, i + 3, Len(rs))

\* ripples.splice(i, 1), i counted from 0
Splice(rs, i) == SubSeq(rs, 1, i) \o SubSeq(rs, i + 2, Len(rs))


\* ----------------------------------------------------------------- state

VARIABLES
    mapOffsetX,          \* offset in 1/360 pixel (looping)
    isDragging,
    dragStartX,
    initialOffsetX,
    ripples,             \* the ripple store, in insertion order
    recentQuakes,        \* the event list, in feed order
    autoRippleIndex,
    lastAutoRippleTime,
    fetchState,          \* "pending", "loaded" or "failed": the one fetch
    rafPending,          \* frame callbacks requested and not yet run
    now,                 \* the timestamp of the last frame (0: none yet)
    autoCount,           \* the number of auto-spawns so far
    lastAuto,            \* the latest auto-spawn: its frame time, event and ripple
    lastFrame,           \* what the last drawFrame read, drew and did
    schedule,            \* a scripted run's frame timestamps and position
    probe,               \* inputs and results of a function under test
    gesture              \* the pointer: button, position, and the last click made

vars == <<mapOffsetX, isDragging, dragStartX, initialOffsetX, ripples,
          recentQuakes, autoRippleIndex, lastAutoRippleTime, fetchState,
          rafPending, now, autoCount, lastAuto, lastFrame, schedule, probe, gesture>>

dragVars == <<mapOffsetX, isDragging, dragStartX, initialOffsetX>>
throttleVars == <<autoRippleIndex, lastAutoRippleTime, autoCount, lastAuto>>
hostVars == <<now, schedule, probe, gesture>>

NoAuto == [t |-> -1, speedMult |-> 0, ripple |-> <<>>]

NoFrame ==
    [ran |-> FALSE, t |-> 0, auto |-> FALSE,
     spawned |-> FALSE, removed |-> 0, markers |-> <<>>, rings |-> <<>>]

\* the script's top level: the declarations, fetchRecentQuakes() started,
\* requestAnimationFrame(drawFrame) called once
ScriptInit ==
    /\ mapOffsetX = 0
    /\ isDragging = FALSE
    /\ dragStartX = 0
    /\ initialOffsetX = 0
    /\ ripples = <<>>
    /\ recentQuakes = <<>>
    /\ autoRippleIndex = 0
    /\ lastAutoRippleTime = 0
    /\ fetchState = "pending"
    /\ rafPending = 1
    /\ autoCount = 0
    /\ lastAuto = NoAuto
    /\ lastFrame = NoFrame

\* ------------------------------------------------------------- the fetch

\* the object made of one feature of the feed ([lon, lat, depth] and
\* properties.mag), with its projection
QuakeOf(feature) ==
    [lon |-> feature.lon, lat |-> feature.lat, depth |-> feature.depth,
     mag |-> feature.mag,
     baseX |-> ProjectX(feature.lon, CanvasWidth),
     baseY |-> ProjectY(feature.lat, CanvasHeight)]

\* data.features.map(...)
RECURSIVE MapQuakes(_)
MapQuakes(features) ==
    IF features = <<>> THEN <<>>
    ELSE <<QuakeOf(Head(features))>> \o MapQuakes(Tail(features))

\* the response arrived, was ok and parsed: recentQuakes is replaced
FetchLoaded(features) ==
    /\ fetchState = "pending"
    /\ fetchState' = "loaded"
    /\ recentQuakes' = MapQuakes(features)
    /\ UNCHANGED <<dragVars, ripples, throttleVars, rafPending, lastFrame>>

FetchFailedLate ==
    /\ fetchState = "pending"
    /\ fetchState' = "failed"
    /\ recentQuakes' = <<QuakeOf([lon |-> 0, lat |-> 0, depth |-> 10, mag |-> 60])>>
    /\ UNCHANGED <<dragVars, ripples, throttleVars, rafPending, lastFrame>>

\* fetch rejected, response not ok, or the data malformed: the catch block
\* sets the status text only
FetchFailed ==
    /\ fetchState = "pending"
    /\ fetchState' = "failed"
    /\ UNCHANGED <<dragVars, ripples, recentQuakes, throttleVars, rafPending,
                   lastFrame>>

\* -------------------------------------------------------------- pointer

\* canvas "mousedown"
MouseDown(clientX) ==
    /\ isDragging' = TRUE
    /\ dragStartX' = clientX
    /\ initialOffsetX' = mapOffsetX
    /\ UNCHANGED <<mapOffsetX, ripples, recentQuakes, throttleVars, fetchState,
                   rafPending, lastFrame>>

\* window "mouseup"
MouseUp ==
    /\ isDragging' = FALSE
    /\ UNCHANGED <<mapOffsetX, dragStartX, initialOffsetX, ripples, recentQuakes,
                   throttleVars, fetchState, rafPending, lastFrame>>

\* mutant: the move is added to the offset
MouseMoveRelative(clientX) ==
    /\ mapOffsetX' = IF isDragging THEN mapOffsetX + (clientX - dragStartX)
                     ELSE mapOffsetX
    /\ Abs(mapOffsetX') <= MaxOffsetPx * XU
    /\ UNCHANGED <<isDragging, dragStartX, initialOffsetX, ripples, recentQuakes,
                   throttleVars, fetchState, rafPending, lastFrame>>

\* canvas "mousemove" (the drag listener; the tooltip listener writes no state)
MouseMove(clientX) ==
    /\ mapOffsetX' = IF isDragging THEN initialOffsetX + (clientX - dragStartX)
                     ELSE mapOffsetX
    /\ Abs(mapOffsetX') <= MaxOffsetPx * XU
    /\ UNCHANGED <<isDragging, dragStartX, initialOffsetX, ripples, recentQuakes,
                   throttleVars, fetchState, rafPending, lastFrame>>

\* mutant: ripples.unshift({...})
CreateRippleAtFront(rs, baseX, baseY, magnitude, depth, speedMultiplier, fromAuto) ==
    <<NewRipple(baseX, baseY, magnitude, depth, speedMultiplier, fromAuto)>> \o rs

\* createRippleFromWorld: ripples.push({...})
CreateRippleFromWorld(rs, baseX, baseY, magnitude, depth, speedMultiplier, fromAuto) ==
    Append(rs, NewRipple(baseX, baseY, magnitude, depth, speedMultiplier, fromAuto))

\* canvas "click" at (screenX, screenY) with the three sliders' values
Click(screenX, screenY, magnitude, depth, speedMult) ==
    /\ Len(ripples) < MaxRipples
    /\ ripples' =
         IF isDragging THEN ripples
         ELSE LET offset == NormalizeOffset(mapOffsetX, W)
                  baseX == ToBase(screenX, offset, W)
              IN CreateRippleFromWorld(ripples, baseX, screenY, magnitude, depth,
                                       speedMult, FALSE)
    /\ UNCHANGED <<dragVars, recentQuakes, throttleVars, fetchState, rafPending,
                   lastFrame>>


\* ------------------------------------------------------------ auto-ripple

\* mutant: a call made with the checkbox unchecked stamps the time
MaybeSpawnStampingIdle(timestamp, autoChecked, speedMult) ==
    IF ~autoChecked
    THEN [spawned |-> FALSE, ripples |-> ripples,
          index |-> autoRippleIndex, last |-> timestamp]
    ELSE IF Len(recentQuakes) = 0
            \/ timestamp - lastAutoRippleTime < AUTO_RIPPLE_INTERVAL
    THEN [spawned |-> FALSE, ripples |-> ripples,
          index |-> autoRippleIndex, last |-> lastAutoRippleTime]
    ELSE LET quake == recentQuakes[(autoRippleIndex % Len(recentQuakes)) + 1]
         IN [spawned |-> TRUE,
             ripples |-> CreateRippleFromWorld(ripples, quake.baseX, quake.baseY,
                                               quake.mag, quake.depth, speedMult, TRUE),
             index |-> autoRippleIndex + 1,
             last |-> timestamp]

\* mutant: lastAutoRippleTime is not set at a spawn
MaybeSpawnNoStamp(timestamp, autoChecked, speedMult) ==
    IF ~autoChecked \/ Len(recentQuakes) = 0
       \/ timestamp - lastAutoRippleTime < AUTO_RIPPLE_INTERVAL
    THEN [spawned |-> FALSE, ripples |-> ripples,
          index |-> autoRippleIndex, last |-> lastAutoRippleTime]
    ELSE LET quake == recentQuakes[(autoRippleIndex % Len(recentQuakes)) + 1]
         IN [spawned |-> TRUE,
             ripples |-> CreateRippleFromWorld(ripples, quake.baseX, quake.baseY,
                                               quake.mag, quake.depth, speedMult, TRUE),
             index |-> autoRippleIndex + 1,
             last |-> lastAutoRippleTime]

\* mutant: the cursor is advanced before the quake is read
MaybeSpawnSkipping(timestamp, autoChecked, speedMult) ==
    IF ~autoChecked \/ Len(recentQuakes) = 0
       \/ timestamp - lastAutoRippleTime < AUTO_RIPPLE_INTERVAL
    THEN [spawned |-> FALSE, ripples |-> ripples,
          index |-> autoRippleIndex, last |-> lastAutoRippleTime]
    ELSE LET quake == recentQuakes[((autoRippleIndex + 1) % Len(recentQuakes)) + 1]
         IN [spawned |-> TRUE,
             ripples |-> CreateRippleFromWorld(ripples, quake.baseX, quake.baseY,
                                               quake.mag, quake.depth, speedMult, TRUE),
             index |-> autoRippleIndex + 1,
             last |-> timestamp]

\* mutant: a last-spawn time of 0 is taken for "never spawned"
MaybeSpawnUnset(timestamp, autoChecked, speedMult) ==
    IF ~autoChecked \/ Len(recentQuakes) = 0
       \/ (lastAutoRippleTime # 0
            /\ timestamp - lastAutoRippleTime < AUTO_RIPPLE_INTERVAL)
    THEN [spawned |-> FALSE, ripples |-> ripples,
          index |-> autoRippleIndex, last |-> lastAutoRippleTime]
    ELSE LET quake == recentQuakes[(autoRippleIndex % Len(recentQuakes)) + 1]
         IN [spawned |-> TRUE,
             ripples |-> CreateRippleFromWorld(ripples, quake.baseX, quake.baseY,
                                               quake.mag, quake.depth, speedMult, TRUE),
             index |-> autoRippleIndex + 1,
             last |-> timestamp]

\* maybeSpawnAutoRipple(timestamp), reading the auto-ripple checkbox and the
\* speed slider: the store, the cursor and the last-spawn time after the call
MaybeSpawnAutoRipple(timestamp, autoChecked, speedMult) ==
    IF ~autoChecked \/ Len(recentQuakes) = 0
    THEN [spawned |-> FALSE, ripples |-> ripples,
          index |-> autoRippleIndex, last |-> lastAutoRippleTime]
    ELSE IF timestamp - lastAutoRippleTime < AUTO_RIPPLE_INTERVAL
    THEN [spawned |-> FALSE, ripples |-> ripples,
          index |-> autoRippleIndex, last |-> lastAutoRippleTime]
    ELSE LET quake == recentQuakes[(autoRippleIndex % Len(recentQuakes)) + 1]
         IN [spawned |-> TRUE,
             ripples |-> CreateRippleFromWorld(ripples, quake.baseX, quake.baseY,
                                               quake.mag, quake.depth, speedMult, TRUE),
             index |-> autoRippleIndex + 1,
             last |-> timestamp]

\* ------------------------------------------------------------ the frame

\* the ring drawFrame strokes for ripple r
RingOf(r, offset) ==
    [x |-> ToScreen(r.baseX, offset, W), y |-> r.baseY, radius |-> r.radius,
     lineWidth |-> r.lineWidth, color |-> r.baseColor, alpha |-> r.opacity]

\* the marker drawFrame fills for a quake: radius 2 + (quake.mag || 0), in tenths
MarkerOf(quake, offset) ==
    [x |-> ToScreen(quake.baseX, offset, W), y |-> quake.baseY,
     radius |-> 20 + quake.mag]

\* for (const quake of recentQuakes) { ... ctx.arc(...) }: the markers drawn
RECURSIVE DrawMarkers(_, _)
DrawMarkers(quakes, offset) ==
    IF quakes = <<>> THEN <<>>
    ELSE <<MarkerOf(Head(quakes), offset)>> \o DrawMarkers(Tail(quakes), offset)

\* mutant: the ring is thinned as it grows
RippleStepThinning(r0) ==
    LET radius == r0.radius + r0.speed
    IN [r0 EXCEPT !.radius = radius,
                  !.opacity = OpacityOf(radius, r0.maxRadius),
                  !.lineWidth = @ - 1,
                  !.age = @ + 1]

\* the ripple loop's update of one ripple: r.radius += r.speed,
\* r.opacity = 1 - r.radius / r.maxRadius
RippleStep(r0) ==
    LET radius == r0.radius + r0.speed
    IN [r0 EXCEPT !.radius = radius,
                  !.opacity = OpacityOf(radius, r0.maxRadius),
                  !.age = @ + 1]

\* mutant: the test made on the radius the ripple had before this frame's growth
ExpiredLate(r) == r.radius - r.speed >= r.maxRadius

\* if (r.radius >= r.maxRadius || r.opacity <= 0)
Expired(r) == r.radius >= r.maxRadius \/ r.opacity.num <= 0

\* for (let i = ripples.length - 1; i >= 0; i--) { ... }: the store and the
\* rings drawn, from index i down.  r is the ripple at i after its update, which
\* the script writes into the object before it tests it; it is bound through
\* a one-element set so that it is computed once.
\* mutant: the ripple before a removed one is passed over
RECURSIVE RippleLoopSkipping(_, _, _, _)
RippleLoopSkipping(rs, i, offset, rings) ==
    IF i < 0 THEN [ripples |-> rs, rings |-> rings]
    ELSE CHOOSE result \in
           { IF Expired(r)
             THEN RippleLoopSkipping(Splice([rs EXCEPT ![i + 1] = r], i), i - 2,
                                     offset, rings)
             ELSE RippleLoopSkipping([rs EXCEPT ![i + 1] = r], i - 1, offset,
                                     Append(rings, RingOf(r, offset)))
             : r \in {RippleStep(rs[i + 1])} } : TRUE

RECURSIVE RippleLoop(_, _, _, _)
RippleLoop(rs, i, offset, rings) ==
    IF i < 0 THEN [ripples |-> rs, rings |-> rings]
    ELSE CHOOSE result \in
           { IF Expired(r)
             THEN RippleLoop(Splice([rs EXCEPT ![i + 1] = r], i), i - 1, offset, rings)
             ELSE RippleLoop([rs EXCEPT ![i + 1] = r], i - 1, offset,
                             Append(rings, RingOf(r, offset)))
             : r \in {RippleStep(rs[i + 1])} } : TRUE

\* the frame's reads and its two phases, each computed once: the offset, the
\* markers drawn, the store after maybeSpawnAutoRipple, the store and the
\* rings after the ripple loop
FrameWork(timestamp, autoChecked, showChecked, speedMult) ==
    LET offset == NormalizeOffset(mapOffsetX, W)
        auto == MaybeSpawnAutoRipple(timestamp, autoChecked, speedMult)
    IN [markers |-> IF showChecked THEN DrawMarkers(recentQuakes, offset) ELSE <<>>,
        auto |-> auto,
        loop |-> RippleLoop(auto.ripples, Len(auto.ripples) - 1, offset, <<>>)]

\* mutant: the frame does not request the next one
DrawFrameOnce(timestamp, autoChecked, showChecked, speedMult) ==
    \E f \in {FrameWork(timestamp, autoChecked, showChecked, speedMult)} :
       /\ rafPending > 0
       /\ f.auto.spawned => Len(ripples) < MaxRipples
       /\ rafPending' = rafPending - 1
       /\ autoRippleIndex' = f.auto.index
       /\ lastAutoRippleTime' = f.auto.last
       /\ ripples' = f.loop.ripples
       /\ autoCount' = autoCount + (Len(f.auto.ripples) - Len(ripples))
       /\ lastAuto' = IF f.auto.spawned
                      THEN [t |-> timestamp,
                            speedMult |-> speedMult,
                            ripple |-> f.auto.ripples[Len(f.auto.ripples)]]
                      ELSE lastAuto
       /\ lastFrame' = [ran |-> TRUE, t |-> timestamp, auto |-> autoChecked,
                        spawned |-> f.auto.spawned,
                        removed |-> Len(f.auto.ripples) - Len(f.loop.ripples),
                        markers |-> f.markers, rings |-> f.loop.rings]
       /\ UNCHANGED <<dragVars, recentQuakes, fetchState>>

\* drawFrame(timestamp), reading the two checkboxes and the speed slider
DrawFrame(timestamp, autoChecked, showChecked, speedMult) ==
    \E f \in {FrameWork(timestamp, autoChecked, showChecked, speedMult)} :
       /\ rafPending > 0
       /\ f.auto.spawned => Len(ripples) < MaxRipples
       \* the callback runs, and requestAnimationFrame(drawFrame) comes first
       /\ rafPending' = (rafPending - 1) + 1
       /\ autoRippleIndex' = f.auto.index
       /\ lastAutoRippleTime' = f.auto.last
       /\ ripples' = f.loop.ripples
       /\ autoCount' = autoCount + (Len(f.auto.ripples) - Len(ripples))
       /\ lastAuto' = IF f.auto.spawned
                      THEN [t |-> timestamp,
                            speedMult |-> speedMult,
                            ripple |-> f.auto.ripples[Len(f.auto.ripples)]]
                      ELSE lastAuto
       /\ lastFrame' = [ran |-> TRUE, t |-> timestamp, auto |-> autoChecked,
                        spawned |-> f.auto.spawned,
                        removed |-> Len(f.auto.ripples) - Len(f.loop.ripples),
                        markers |-> f.markers, rings |-> f.loop.rings]
       /\ UNCHANGED <<dragVars, recentQuakes, fetchState>>

\* ------------------------------------------------------- the environment

\* pointer positions, in pixels from the canvas's left edge; the canvas is
\* shown at its own size, so clientX - rect.left is the canvas x
ClientXs == {(CanvasWidth - 1) * XU}
ClickYs == {1 * YU}
\* slider values: magnitude (tenths), depth (km), speed multiplier (tenths)
MagValues == {75}
DepthValues == {300}
SpeedValues == {400, 900}
\* the time between two frames (ms)
FrameDeltas == {1000, 2000}

\* feeds: features out of the clamped ranges included, and lon = 180
Feed3 ==
    <<[lon |-> -180, lat |-> 0, depth |-> -5, mag |-> 25],
      [lon |-> 60, lat |-> 45, depth |-> 10, mag |-> 60],
      [lon |-> 180, lat |-> -45, depth |-> 750, mag |-> 95]>>
Feed2 == SubSeq(Feed3, 2, 3)
Feeds == {Feed2, <<>>}

NoSchedule == [times |-> <<>>, pos |-> 0, live |-> FALSE]
NoProbe == [fn |-> "none"]
\* no button down, and no click made yet
NoClick == [made |-> FALSE, dragged |-> FALSE, added |-> FALSE, x |-> 0, pos |-> 0,
            still |-> FALSE]
NoGesture == [phase |-> "idle", x |-> 0, moved |-> FALSE, click |-> NoClick]

Init ==
    /\ ScriptInit
    /\ now = 0
    /\ schedule = NoSchedule
    /\ gesture = NoGesture
    /\ probe = NoProbe

\* the host calls the frame callback with a timestamp that never decreases
Frame(timestamp, autoChecked, showChecked, speedMult) ==
    /\ timestamp >= now
    /\ timestamp <= MaxTime
    /\ DrawFrame(timestamp, autoChecked, showChecked, speedMult)
    /\ now' = timestamp
    /\ UNCHANGED <<schedule, probe, gesture>>

FeedArrives == \E features \in Feeds : FetchLoaded(features) /\ UNCHANGED hostVars

FeedFails == FetchFailed /\ UNCHANGED hostVars

UserClicks ==
    \E x \in ClientXs, y \in ClickYs, m \in MagValues, d \in DepthValues,
       s \in SpeedValues :
        Click(x, y, m, d, s) /\ UNCHANGED hostVars

HostFrame ==
    \E dt \in FrameDeltas, auto \in BOOLEAN, show \in BOOLEAN, s \in SpeedValues :
        Frame(now + dt, auto, show, s)

Next == FeedArrives \/ FeedFails \/ UserClicks \/ HostFrame

Spec == Init /\ [][Next]_vars

\* ------------------------------------------- the store draining (SpecDrain)

\* Clicks with sliders in and out of the clamped ranges, and frames with the
\* auto-ripple checkbox unchecked: drawFrame then never reads its timestamp,
\* so the frames of this environment carry the same one and may go on for ever.
\* The feed is left pending: with the checkbox unchecked only the markers
\* depend on it, and they do not touch the store.
DrainMagValues == {25, 95}
DrainDepthValues == {-5, 750}

DrainClick ==
    \E x \in ClientXs, y \in ClickYs, m \in DrainMagValues, d \in DrainDepthValues,
       s \in SpeedValues :
        Click(x, y, m, d, s) /\ UNCHANGED hostVars

DrainFrame ==
    \E show \in BOOLEAN, s \in SpeedValues :
        DrawFrame(now, FALSE, show, s) /\ UNCHANGED hostVars

DrainNext == DrainClick \/ DrainFrame

\* a frame callback is always pending and the host runs it
SpecDrain == Init /\ [][DrainNext]_vars /\ WF_vars(DrainFrame)

\* --------------------------------------- scripted frames (SpecThrottle)

\* The host delivers the frames of a script: four timestamps, ascending, on
\* and around the throttle's interval.  At each frame the auto-ripple
\* checkbox is checked or not; schedule.live tells that so far every frame
\* ran with the checkbox checked and the three-event list loaded.
TickTimes == {0, 500, 1999, 2000, 2100, 4099, 4100, 4300, 6300}
Scripts ==
    { ts \in { <<a, b, c, d>> : a \in TickTimes, b \in TickTimes,
                                c \in TickTimes, d \in TickTimes } :
        ts[1] < ts[2] /\ ts[2] < ts[3] /\ ts[3] < ts[4] }
ThrottleFeeds == {Feed3, Feed2}
ThrottleSpeeds == {900}

InitThrottle ==
    /\ ScriptInit
    /\ now = 0
    /\ schedule \in { [times |-> ts, pos |-> 0, live |-> TRUE] : ts \in Scripts }
    /\ probe = NoProbe
    /\ gesture = NoGesture

ThrottleFeedArrives ==
    \E features \in ThrottleFeeds : FetchLoaded(features) /\ UNCHANGED hostVars

ScriptedFrame ==
    /\ schedule.pos < Len(schedule.times)
    /\ \E auto \in BOOLEAN, s \in ThrottleSpeeds :
          /\ DrawFrame(schedule.times[schedule.pos + 1], auto, FALSE, s)
          /\ now' = schedule.times[schedule.pos + 1]
          /\ schedule' = [schedule EXCEPT
                            !.pos = @ + 1,
                            !.live = @ /\ auto /\ Len(recentQuakes) = 3]
          /\ UNCHANGED <<probe, gesture>>

ThrottleNext == ThrottleFeedArrives \/ ScriptedFrame

SpecThrottle == InitThrottle /\ [][ThrottleNext]_vars

\* ------------------------------------- the projector alone (SpecProjector)

\* normalizeOffset, the screen wraparound and its inverse applied in turn to
\* a raw offset and a base x, in pixels, on a canvas w wide
ProbeWidths == (2..MaxProbeWidth) \cup {800}
ProbeRawOffsets(w) ==
    IF w <= MaxProbeWidth THEN (-(2 * w) - 1)..(2 * w + 1)
    ELSE {-1605, -805, -800, -795, -5, 0, 5, 795, 799, 800, 805, 1605}
ProbeXs(w) == IF w <= MaxProbeWidth THEN 0..(w - 1) ELSE {0, 5, 400, 795, 799}

InitProjector ==
    /\ ScriptInit
    /\ now = 0
    /\ schedule = NoSchedule
    /\ gesture = NoGesture
    /\ probe \in UNION { { [fn |-> "projector", w |-> w, raw |-> raw, x |-> x,
                             stage |-> 0, offset |-> 0, screenX |-> 0, baseX |-> 0]
                            : raw \in ProbeRawOffsets(w), x \in ProbeXs(w) }
                          : w \in ProbeWidths }

ProbeNormalize ==
    /\ probe.stage = 0
    /\ probe' = [probe EXCEPT !.stage = 1,
                              !.offset = NormalizeOffset(probe.raw, probe.w)]
    /\ UNCHANGED <<dragVars, ripples, recentQuakes, throttleVars, fetchState,
                   rafPending, lastFrame, now, schedule, gesture>>

ProbeToScreen ==
    /\ probe.stage = 1
    /\ probe' = [probe EXCEPT !.stage = 2,
                              !.screenX = ToScreen(probe.x, probe.offset, probe.w)]
    /\ UNCHANGED <<dragVars, ripples, recentQuakes, throttleVars, fetchState,
                   rafPending, lastFrame, now, schedule, gesture>>

ProbeToBase ==
    /\ probe.stage = 2
    /\ probe' = [probe EXCEPT !.stage = 3,
                              !.baseX = ToBase(probe.screenX, probe.offset, probe.w)]
    /\ UNCHANGED <<dragVars, ripples, recentQuakes, throttleVars, fetchState,
                   rafPending, lastFrame, now, schedule, gesture>>

ProjectorNext == ProbeNormalize \/ ProbeToScreen \/ ProbeToBase

SpecProjector == InitProjector /\ [][ProjectorNext]_vars

\* ------------------------------------ createRippleFromWorld alone (SpecSpawn)

\* createRippleFromWorld called on arguments in, on and out of the clamped
\* ranges, speed multipliers of zero and below included; probe.calls lists
\* the calls made, in the order of the store
SpawnArgs ==
    [baseX : {XU}, baseY : {YU}, magnitude : {0, 30, 90, 150},
     depth : {-10, 0, 700, 710}, speedMult : {-10, 0, 10}, fromAuto : BOOLEAN]

InitSpawn ==
    /\ ScriptInit
    /\ now = 0
    /\ schedule = NoSchedule
    /\ gesture = NoGesture
    /\ probe = [fn |-> "spawn", calls |-> <<>>]

ProbeSpawn ==
    /\ Len(probe.calls) < MaxProbeSpawns
    /\ \E a \in SpawnArgs :
          /\ ripples' = CreateRippleFromWorld(ripples, a.baseX, a.baseY, a.magnitude,
                                               a.depth, a.speedMult, a.fromAuto)
          /\ probe' = [probe EXCEPT !.calls = Append(@, a)]
    /\ UNCHANGED <<dragVars, recentQuakes, throttleVars, fetchState, rafPending,
                   lastFrame, now, schedule, gesture>>

SpecSpawn == InitSpawn /\ [][ProbeSpawn]_vars

\* ------------------------------------------- pointer gestures (SpecPointer)

\* The host delivers a press on the canvas as mousedown, then the moves made
\* with the button down, then mouseup, then click at the place of the
\* release; moves with no button down come in between gestures. Frames and
\* the arrival of the feed fall anywhere in between. gesture.click describes
\* the last click, for as long as its ripple is in the store and no new press
\* is made: where it was, whether the offset had moved during its gesture,
\* whether it added a ripple, the place of that ripple in the store, and
\* whether the offset has stood still since.
PointerXs == {0, (CanvasWidth - 2) * XU}
PointerSpeeds == {900}
PointerDeltas == {3000}

PointerDown ==
    /\ gesture.phase = "idle"
    /\ \E x \in PointerXs :
          /\ MouseDown(x)
          /\ gesture' = [phase |-> "down", x |-> x, moved |-> FALSE, click |-> NoClick]
    /\ UNCHANGED <<now, schedule, probe>>

PointerMove ==
    /\ gesture.phase \in {"idle", "down"}
    /\ \E x \in PointerXs :
          /\ MouseMove(x)
          /\ gesture' = [gesture EXCEPT
                           !.x = IF gesture.phase = "down" THEN x ELSE @,
                           !.moved = @ \/ mapOffsetX' # mapOffsetX,
                           !.click.still = @ /\ mapOffsetX' = mapOffsetX]
    /\ UNCHANGED <<now, schedule, probe>>

PointerUp ==
    /\ gesture.phase = "down"
    /\ MouseUp
    /\ gesture' = [gesture EXCEPT !.phase = "up"]
    /\ UNCHANGED <<now, schedule, probe>>

PointerClick ==
    /\ gesture.phase = "up"
    /\ \E y \in ClickYs, m \in MagValues, d \in DepthValues, s \in PointerSpeeds :
          Click(gesture.x, y, m, d, s)
    /\ gesture' = [gesture EXCEPT
                     !.phase = "idle", !.x = 0, !.moved = FALSE,
                     !.click = [made |-> TRUE, dragged |-> gesture.moved,
                                added |-> Len(ripples') > Len(ripples),
                                x |-> gesture.x,
                                pos |-> IF Len(ripples') > Len(ripples)
                                        THEN Len(ripples') ELSE 0,
                                still |-> TRUE]]
    /\ UNCHANGED <<now, schedule, probe>>

\* the place after a frame of the ripple that was at pos in the store rs when
\* the ripple loop began
PosAfterFrame(pos, rs) ==
    IF pos = 0 \/ Expired(RippleStep(rs[pos])) THEN 0
    ELSE pos - Cardinality({k \in 1..(pos - 1) : Expired(RippleStep(rs[k]))})

PointerFrame ==
    /\ \E dt \in PointerDeltas, auto \in BOOLEAN, s \in SpeedValues :
          /\ now + dt <= MaxTime
          /\ DrawFrame(now + dt, auto, FALSE, s)
          /\ now' = now + dt
    /\ gesture' = IF PosAfterFrame(gesture.click.pos, ripples) = 0
                   THEN [gesture EXCEPT !.click = NoClick]
                   ELSE [gesture EXCEPT !.click.pos = PosAfterFrame(@, ripples)]
    /\ UNCHANGED <<schedule, probe>>

PointerFeedArrives == FetchLoaded(Feed2) /\ UNCHANGED hostVars

PointerNext ==
    \/ PointerDown
    \/ PointerMove
    \/ PointerUp
    \/ PointerClick
    \/ PointerFrame
    \/ PointerFeedArrives

SpecPointer == Init /\ [][PointerNext]_vars

\* =========================================================== the claims

CeilDiv(a, b) == (a + b - 1) \div b

InStore(P(_)) == \A i \in 1..Len(ripples) : P(ripples[i])

\* C1: at the end of every frame every ripple in the store has
\* radius < maxRadius and opacity = 1 - radius/maxRadius > 0 (a ripple that
\* reached maxRadius or opacity 0 in the frame is no longer in the store).
C1_Alive(r) ==
    /\ r.radius < r.maxRadius
    /\ r.opacity = OpacityOf(r.radius, r.maxRadius)
    /\ r.opacity.num > 0
C1_StoreAlive == InStore(C1_Alive)

\* a frame that removed a ripple and kept an aged one
C1_Witness ==
    /\ lastFrame.ran
    /\ lastFrame.removed > 0
    /\ \E i \in 1..Len(ripples) : ripples[i].age > 0


\* C2: every spawn (positive speed multiplier) has maxRadius > 0 and
\* growthRate > 0, a ripple is out of the store no later than
\* ceil(maxRadius/growthRate) frames after its spawn, and so, frames running
\* and no further spawn occurring, the store becomes empty.
C2_Bounded(r) ==
    /\ r.maxRadius > 0
    /\ r.speed > 0
    /\ r.age < CeilDiv(r.maxRadius, r.speed)
C2_Spawned == Len(ripples') = Len(ripples) + 1
C2_Drains ==
    /\ [](InStore(C2_Bounded))
    /\ ([]<>(ripples = <<>>) \/ []<><<C2_Spawned>>_vars)

\* a ripple in its last frame beside one a frame has just removed
C2_Witness ==
    /\ lastFrame.removed > 0
    /\ \E i \in 1..Len(ripples) :
          ripples[i].age + 1 = CeilDiv(ripples[i].maxRadius, ripples[i].speed)


\* C3: whatever the frame timestamps and the toggling of the auto-ripple
\* checkbox, a frame performs at most one auto-spawn, and two consecutive
\* auto-spawns are at frame timestamps at least 2000 ms apart.
C3_Throttled ==
    [][/\ autoCount' <= autoCount + 1
       /\ (autoCount' > autoCount /\ autoCount > 0)
            => lastAuto'.t - lastAuto.t >= AUTO_RIPPLE_INTERVAL]_vars

\* a second auto-spawn exactly one interval after the first
C3_Witness ==
    /\ autoCount = 2
    /\ lastFrame.spawned
    /\ lastAuto.t = 4100
    /\ schedule.times[1] = 2100

\* C4: the k-th auto-spawn (k = 0, 1, ...) is built from
\* events[k mod len(events)] with isAuto = true, and cursorIndex is the number
\* of auto-spawns so far.
C4_EventOf(k) == recentQuakes[(k % Len(recentQuakes)) + 1]
C4_InFeedOrder ==
    /\ autoRippleIndex = autoCount
    /\ autoCount > 0 =>
         lastAuto.ripple = NewRipple(C4_EventOf(autoCount - 1).baseX,
                                     C4_EventOf(autoCount - 1).baseY,
                                     C4_EventOf(autoCount - 1).mag,
                                     C4_EventOf(autoCount - 1).depth,
                                     lastAuto.speedMult, TRUE)

\* the third auto-spawn over a two-event list: the list has wrapped
C4_Witness ==
    /\ autoCount = 3
    /\ Len(recentQuakes) = 2
    /\ lastFrame.spawned

\* C5 (as claimed): with the checkbox checked and three events loaded, frames
\* at 0, 500, 2100, 4300 spawn at 0, 2100 and 4300 and not at 500, from events
\* 0, 1, 2 in that order.
C5_Scenario == schedule.times = <<0, 500, 2100, 4300>> /\ schedule.live
C5_SpawnIs(k, t) ==
    /\ autoCount = k + 1
    /\ lastAuto.t = t
    /\ lastAuto.ripple.baseX = recentQuakes[k + 1].baseX
C5_FirstTickSpawns ==
    C5_Scenario =>
        /\ schedule.pos = 1 => C5_SpawnIs(0, 0)
        /\ schedule.pos = 2 => C5_SpawnIs(0, 0)
        /\ schedule.pos = 3 => C5_SpawnIs(1, 2100)
        /\ schedule.pos = 4 => C5_SpawnIs(2, 4300)

\* C5 (amended): the last-spawn time starts at 0, a time and not "unset":
\* frames at 0, 500, 2100, 4300 spawn at 2100 and 4300 only, from events 0, 1.
C5_FirstSpawnAfterInterval ==
    C5_Scenario =>
        /\ schedule.pos = 1 => autoCount = 0
        /\ schedule.pos = 2 => autoCount = 0
        /\ schedule.pos = 3 => C5_SpawnIs(0, 2100)
        /\ schedule.pos = 4 => C5_SpawnIs(1, 4300)

\* the four frames of the scenario have run
C5_Witness == C5_Scenario /\ schedule.pos = 4

\* ---- C6
\* C6: for a positive canvas width w and any offset, normalizeOffset gives
\* a value in [0, w) that differs from the offset by a multiple of w;
\* normalizing -5 on a canvas 800 wide gives 795.
C6_Normalized ==
    (probe.fn = "projector" /\ probe.stage >= 1) =>
        /\ probe.offset \in 0..(probe.w - 1)
        /\ (probe.offset - probe.raw) % probe.w = 0
        /\ (probe.raw = -5 /\ probe.w = 800) => probe.offset = 795

\* -5 has been normalized on the canvas 800 wide
C6_Witness ==
    probe.fn = "projector" /\ probe.stage >= 1 /\ probe.raw = -5 /\ probe.w = 800

\* ---- C7
\* C7: for x and a normalized offset in [0, w), taking x to the screen and
\* back gives x.
C7_RoundTrip ==
    (probe.fn = "projector" /\ probe.stage = 3) => probe.baseX = probe.x

\* a round trip whose screen position lands on the right edge, and one that
\* wraps, are among those made; this is the first
C7_Witness ==
    /\ probe.fn = "projector" /\ probe.stage = 3
    /\ probe.offset > 0
    /\ probe.x + probe.offset = probe.w

\* ---- C8
\* C8: a spawn with magnitude above 9 creates the ripple a spawn with
\* magnitude 9 creates, one below 3 that of 3, a depth below 0 that of 0, a
\* depth above 700 that of 700, the other arguments being equal; every call
\* adds its ripple.
C8_Mag(m) == IF m > 90 THEN 90 ELSE IF m < 30 THEN 30 ELSE m
C8_Depth(d) == IF d < 0 THEN 0 ELSE IF d > 700 THEN 700 ELSE d
C8_SameInRange(a, b) ==
    /\ C8_Mag(a.magnitude) = C8_Mag(b.magnitude)
    /\ C8_Depth(a.depth) = C8_Depth(b.depth)
    /\ a.baseX = b.baseX /\ a.baseY = b.baseY
    /\ a.speedMult = b.speedMult /\ a.fromAuto = b.fromAuto

C8_Clamped ==
    probe.fn = "spawn" =>
        /\ Len(ripples) = Len(probe.calls)
        /\ \A i, j \in 1..Len(ripples) :
              C8_SameInRange(probe.calls[i], probe.calls[j]) => ripples[i] = ripples[j]

\* magnitude 15 at depth -10 spawned, then magnitude 9 at depth 0
C8_Witness ==
    /\ probe.fn = "spawn" /\ Len(ripples) = 2
    /\ probe.calls[1].magnitude = 150 /\ probe.calls[1].depth = -10
    /\ probe.calls[2].magnitude = 90 /\ probe.calls[2].depth = 0
    /\ C8_SameInRange(probe.calls[1], probe.calls[2])

\* ---- C9
C9_Strongest(a) == a.magnitude = 90 /\ a.depth = 0
C9_Weakest(a) == a.magnitude = 30 /\ a.depth = 700
C9_Greater(i, j) ==
    /\ ripples[i].maxRadius > ripples[j].maxRadius
    /\ ripples[i].speed > ripples[j].speed

\* C9 as stated: at any one speed multiplier, the ripple spawned with
\* magnitude 9 and depth 0 has a strictly greater maxRadius and a strictly
\* greater growth rate than the one spawned with magnitude 3 and depth 700.
C9_AnySpeed ==
    probe.fn = "spawn" =>
        \A i, j \in 1..Len(ripples) :
            (/\ C9_Strongest(probe.calls[i])
             /\ C9_Weakest(probe.calls[j])
             /\ probe.calls[i].speedMult = probe.calls[j].speedMult)
            => C9_Greater(i, j)

\* C9: at any one positive speed multiplier, the ripple spawned with
\* magnitude 9 and depth 0 has a strictly greater maxRadius and a strictly
\* greater growth rate than the one spawned with magnitude 3 and depth 700.
C9_PositiveSpeed ==
    probe.fn = "spawn" =>
        \A i, j \in 1..Len(ripples) :
            (/\ C9_Strongest(probe.calls[i])
             /\ C9_Weakest(probe.calls[j])
             /\ probe.calls[i].speedMult = probe.calls[j].speedMult
             /\ probe.calls[i].speedMult > 0)
            => C9_Greater(i, j)

\* the two ripples have been spawned at a positive speed multiplier
C9_Witness ==
    /\ probe.fn = "spawn" /\ Len(ripples) = 2
    /\ C9_Strongest(probe.calls[1]) /\ C9_Weakest(probe.calls[2])
    /\ probe.calls[1].speedMult = probe.calls[2].speedMult
    /\ probe.calls[1].speedMult > 0

\* ---- C10
C10_Quiet ==
    fetchState = "failed" =>
        /\ recentQuakes = <<>>
        /\ rafPending = 1
        /\ autoRippleIndex = 0
        /\ lastAutoRippleTime = 0
        /\ autoCount = 0
        /\ \A i \in 1..Len(ripples) : ~ripples[i].fromAuto
        /\ lastFrame.markers = <<>>

C10_FrameRuns ==
    (fetchState = "failed" /\ HostFrame) =>
        /\ lastFrame'.ran /\ lastFrame'.t = now'
        /\ lastFrame'.markers = <<>>
        /\ ~lastFrame'.spawned
        /\ rafPending' = 1

C10_ClickSpawns ==
    (fetchState = "failed" /\ UserClicks) =>
        /\ Len(ripples') = Len(ripples) + 1
        /\ SubSeq(ripples', 1, Len(ripples)) = ripples
        /\ ~ripples'[Len(ripples')].fromAuto
        /\ ripples'[Len(ripples')].radius = 0

\* C10: once the fetch has failed the list of events stays empty, frames
\* keep running and one callback stays pending, no marker is drawn, no
\* automatic ripple is spawned, autoRippleIndex and lastAutoRippleTime keep
\* their initial values, and a click still adds a manual ripple.
C10_FetchFailure == [](C10_Quiet) /\ [][C10_FrameRuns /\ C10_ClickSpawns]_vars

\* the fetch has failed, a frame with auto-ripples checked has run past the
\* first interval and advanced a manual ripple, and a click has added another
C10_Witness ==
    /\ fetchState = "failed"
    /\ lastFrame.ran /\ lastFrame.auto /\ lastFrame.t >= AUTO_RIPPLE_INTERVAL
    /\ \E i, j \in 1..Len(ripples) : ripples[i].age >= 1 /\ ripples[j].age = 0

\* ---- C11
C11_OnlyDragMoves == mapOffsetX' # mapOffsetX => (PointerMove /\ isDragging)

C11_SetAbsolutely ==
    (PointerMove /\ isDragging) =>
        mapOffsetX' = initialOffsetX + (gesture'.x - dragStartX)

C11_CapturedAtStart ==
    IF PointerDown
    THEN initialOffsetX' = mapOffsetX /\ dragStartX' = gesture'.x
    ELSE UNCHANGED <<initialOffsetX, dragStartX>>

\* C11: mapOffsetX is changed only by a pointer move during a drag, which
\* sets it to the offset captured at mousedown plus the pointer's distance
\* from where it went down; frames (their throttle tick included), clicks,
\* mousedown, mouseup and moves with no drag leave it as it is.
C11_OffsetByDragOnly ==
    [][C11_OnlyDragMoves /\ C11_SetAbsolutely /\ C11_CapturedAtStart]_vars

\* a second drag, begun at an offset a first one left, has moved the offset
C11_Witness ==
    /\ isDragging
    /\ initialOffsetX # 0
    /\ mapOffsetX # initialOffsetX
    /\ lastFrame.ran

\* ---- C12
\* the store when the ripple loop of a frame begins
C12_Start == IF lastFrame'.spawned THEN Append(ripples, lastAuto'.ripple) ELSE ripples

C12_Core(r, radius) ==
    <<r.baseX, r.baseY, r.maxRadius, r.speed, r.lineWidth, r.baseColor, r.fromAuto,
      radius>>

RECURSIVE C12_Cores(_)
C12_Cores(rs) ==
    IF rs = <<>> THEN <<>>
    ELSE <<C12_Core(Head(rs), Head(rs).radius)>> \o C12_Cores(Tail(rs))

\* each ripple grown once by its own speed, those that reach maxRadius left out
RECURSIVE C12_GrownOnce(_)
C12_GrownOnce(rs) ==
    IF rs = <<>> THEN <<>>
    ELSE LET r == Head(rs)
         IN IF r.radius + r.speed < r.maxRadius
            THEN <<C12_Core(r, r.radius + r.speed)>> \o C12_GrownOnce(Tail(rs))
            ELSE C12_GrownOnce(Tail(rs))

\* (the steps that move the clock are the frames)
\* C12: in one frame every ripple in the store when the ripple loop begins
\* has its radius increased by its own speed exactly once, whichever
\* ripples the frame removes, and the ripples that stay keep their order.
C12_EachOncePerFrame ==
    [][now' # now =>
         /\ C12_Cores(ripples') = C12_GrownOnce(C12_Start)
         /\ lastFrame'.removed = Len(C12_Start) - Len(ripples')]_vars

\* the last frame removed a ripple from between two that stay
C12_Witness ==
    /\ lastFrame.ran
    /\ lastFrame.removed = 1
    /\ Len(ripples) = 2
    /\ ripples[1].age = 2
    /\ ripples[2].age = 1

\* ---- C13
\* the frame of this step made a tick that the claim says does not spawn
C13_NoSpawnDue ==
    \/ ~lastFrame'.auto
    \/ recentQuakes = <<>>
    \/ lastFrame'.t - lastAutoRippleTime < AUTO_RIPPLE_INTERVAL

\* C13: a tick made with auto-ripples unchecked, with an empty event list, or
\* less than 2000 ms after the last auto-spawn leaves autoRippleIndex,
\* lastAutoRippleTime and the store as they are (the frame's ripple loop then
\* works on the store it found); a tick that spawns plays the event the
\* cursor was left at.
C13_IdleTick ==
    [][ScriptedFrame =>
         IF C13_NoSpawnDue
         THEN /\ ~lastFrame'.spawned
              /\ UNCHANGED throttleVars
              /\ C12_Cores(ripples') = C12_GrownOnce(ripples)
         ELSE /\ lastFrame'.spawned
              /\ autoRippleIndex' = autoRippleIndex + 1
              /\ lastAuto'.ripple.baseX = C4_EventOf(autoRippleIndex).baseX]_vars

\* after a first auto-spawn, a frame with the checkbox unchecked has passed
\* at a time when a spawn was due, and its loop worked on the first's ripple
C13_Witness ==
    /\ lastFrame.ran /\ ~lastFrame.auto
    /\ recentQuakes # <<>>
    /\ autoCount = 1
    /\ lastFrame.t - lastAutoRippleTime >= AUTO_RIPPLE_INTERVAL
    /\ lastFrame.removed = 1

\* ---- C14
\* C14: the click that ends a drag gesture (mousedown, moves that changed
\* the offset, mouseup, click) adds no ripple to the store.
C14_DragClickIgnored ==
    (gesture.click.made /\ gesture.click.dragged) => ~gesture.click.added

\* the click of a gesture whose moves changed the offset has been delivered
C14_Witness ==
    /\ gesture.click.made
    /\ gesture.click.dragged
    /\ ~isDragging

\* ---- C15
C15_Fixed(r) ==
    <<r.baseX, r.baseY, r.maxRadius, r.speed, r.lineWidth, r.baseColor, r.fromAuto>>

\* the ripples of after are, in order, ripples of before one frame older,
\* with the fields of C15_Fixed as they were
RECURSIVE C15_Kept(_, _)
C15_Kept(after, before) ==
    IF after = <<>> THEN TRUE
    ELSE IF before = <<>> THEN FALSE
    ELSE IF /\ C15_Fixed(Head(after)) = C15_Fixed(Head(before))
            /\ Head(after).age = Head(before).age + 1
         THEN C15_Kept(Tail(after), Tail(before))
         ELSE C15_Kept(after, Tail(before))

\* C15: once created, a ripple keeps its baseX, baseY, maxRadius, speed,
\* lineWidth and colour: a frame changes only the radius and the opacity of
\* the ripples it keeps, and pointer events, clicks, other spawns, the
\* arrival of the feed and other values of the sliders change nothing of a
\* ripple in the store.
C15_FieldsFixed ==
    [][IF PointerFrame
       THEN C15_Kept(ripples', C12_Start)
       ELSE /\ Len(ripples') >= Len(ripples)
            /\ SubSeq(ripples', 1, Len(ripples)) = ripples]_vars

\* a manual ripple has been through a frame that read another speed and
\* spawned an auto-ripple, and the map is now being dragged
C15_Witness ==
    /\ isDragging /\ mapOffsetX # 0
    /\ lastFrame.spawned /\ lastAuto.speedMult # 900
    /\ \E i, j \in 1..Len(ripples) :
          /\ ~ripples[i].fromAuto /\ ripples[i].age >= 1
          /\ ripples[j].fromAuto

\* ---- C16
\* the arguments of the call made in this step
C16_Call == probe'.calls[Len(probe'.calls)]
C16_Pushed == ripples'[Len(ripples')]

\* C16: every call of createRippleFromWorld, whatever its arguments and
\* however many ripples the store holds, makes the store one longer by
\* appending a ripple with radius 0 and opacity 1 that is of the auto kind
\* exactly when fromAuto is true, and leaves the ripples before it as they
\* were.
C16_SpawnAppendsOne ==
    [][Len(probe'.calls) = Len(probe.calls) + 1 =>
         /\ Len(ripples') = Len(ripples) + 1
         /\ SubSeq(ripples', 1, Len(ripples)) = ripples
         /\ C16_Pushed.radius = 0
         /\ C16_Pushed.opacity.num = C16_Pushed.opacity.den
         /\ C16_Pushed.opacity.den > 0
         /\ C16_Pushed.fromAuto = C16_Call.fromAuto
         /\ C16_Pushed.baseColor = (IF C16_Call.fromAuto THEN "#4ade80" ELSE "#22d3ee")
         /\ C16_Pushed.baseX = C16_Call.baseX
         /\ C16_Pushed.baseY = C16_Call.baseY]_vars

\* an auto spawn has followed a manual spawn of another magnitude
C16_Witness ==
    /\ probe.fn = "spawn" /\ Len(ripples) = 2
    /\ ~probe.calls[1].fromAuto /\ probe.calls[2].fromAuto
    /\ ripples[1].maxRadius # ripples[2].maxRadius

\* ---- C17
\* C17: from the script's load on exactly one frame callback is pending in
\* every state: each call of drawFrame requests one successor, whatever the
\* frame then does, nothing else requests or cancels one, and the host can
\* always run the pending one.
C17_OneFramePending ==
    /\ rafPending = 1
    /\ (\E dt \in FrameDeltas : now + dt <= MaxTime) => ENABLED HostFrame

\* frames have run, the last of them spawning a ripple and removing another
C17_Witness ==
    /\ lastFrame.ran
    /\ lastFrame.spawned
    /\ lastFrame.removed >= 1
    /\ lastFrame.t >= 2 * AUTO_RIPPLE_INTERVAL

C19_Ring == lastFrame.rings[Len(lastFrame.rings) - gesture.click.pos + 1]

\* C19: the ripple of a click at screen x s in [0, w) has its base x in
\* [0, w), and while the offset stays what it was at the click every frame
\* draws its ring centred at screen x s.
C19_DrawnWhereClicked ==
    gesture.click.pos > 0 =>
        /\ ripples[gesture.click.pos].baseX \in 0..(W - 1)
        /\ (gesture.click.still /\ ripples[gesture.click.pos].age >= 1)
              => C19_Ring.x = gesture.click.x

\* a frame has drawn the ripple of a click made on a map dragged off 0
C19_Witness ==
    /\ gesture.click.pos > 0
    /\ gesture.click.still
    /\ ripples[gesture.click.pos].age >= 1
    /\ NormalizeOffset(mapOffsetX, W) # 0

=============================================================================
